---- MODULE Spec2Model ----
(***************************************************************************)
(* Model of the SermoSocket session engine (src/unnamed/part_002): the     *)
(* connection state machine, the reconnect timer, the pending-request      *)
(* table with its timeout timers, and the delimiter framer / dispatcher.   *)
(*                                                                         *)
(* The session object is handled as a record `s` by the operators that     *)
(* model its methods (disconnect, init, connect, reconnect, request,       *)
(* onStateChange, onConnect, onData, onError, onEnd); every action of the  *)
(* state machine runs one caller operation, one stream event handler or    *)
(* one timer callback to completion (single-threaded event loop) and       *)
(* commits the resulting record to the variables.                          *)
(***************************************************************************)
EXTENDS Integers, Sequences, FiniteSets, TLC

VARIABLES
    options,           \* this.options after the constructor: [reconnect, endByte]
    state,             \* this.state
    socket,            \* this.socket: index into streams, or NoSocket
    lastMessage,       \* this.lastMessage
    reconnectTimeout,  \* this.reconnectTimeout: a timer id, or NoTimer
    reconnectCount,    \* this.reconnectCount
    pendingRequest,    \* the keys of the this.pendingRequest map
    buffer,            \* this.buffer
    streams,           \* every net.Socket created so far, in creation order
    timers,            \* the reconnect timers armed in the event loop
    requestTimers,     \* the requestIds whose timeout timer is armed
    promise,           \* per requestId, the state of the promise request() returned
    emitted,           \* the notifications the last operation emitted, in order
    last,              \* the last operation: its name, input, result, writes
                       \* (<<stream, requestId>> per socket.write), stamps,
                       \* and the state seen at each of its notifications
    history            \* when tracked: what the stream the session holds has
                       \* delivered (received) and what the framer has cut
                       \* from it (messages) since it was installed, and
                       \* whether undelimited bytes were ever discarded;
                       \* and the disconnect notifications emitted since
                       \* the last connect notification; and whether the
                       \* caller's last call of connect(), reconnect() or
                       \* disconnect() was disconnect()

vars == <<options, state, socket, lastMessage, reconnectTimeout, reconnectCount,
          pendingRequest, buffer, streams, timers, requestTimers, promise,
          emitted, last, history>>

\* ------------------------------------------------------------------ bounds
\* requests accepted in one run
MaxRequests == 2
\* streams (connect attempts) created in one run
MaxStreams == 2
\* bytes of one data event of the framing specification
MaxChunk == 3
\* bytes one stream delivers in the framing specification
MaxBytes == 4
\* complete frames in one data event of the dispatch specification
MaxFrames == 2

\* --------------------------------------------------------------- constants
INITIALIZING == "initializing"
CONNECTED == "connected"
DISCONNECTED == "disconnected"

NoSocket == 0
NoTimer == 0
NoRequestId == 0
NoStamp == "undefined"
Stamp == "Date"

DefaultEndByte == 10

\* ------------------------------------------------------------- wire values
\* One element of a data chunk.  A message element stands for the whole JSON
\* text of that message; END is the delimiter byte and JUNK a byte that is
\* not JSON by itself or next to anything else.
END == [byte |-> DefaultEndByte]
JUNK == [byte |-> 123]

NoData == [absent |-> TRUE]
ErrorData == [error |-> "denied"]

Codes == {199, 200, 299, 300}
RequestIds == 1..MaxRequests

\* The responses a peer sends: every code of Codes for every requestId the
\* session may have issued and for one it never issues; the failure with
\* code 300 carries an error text.
Responses ==
    {[type |-> "REQUEST", url |-> "/u", code |-> c,
      data |-> IF c = 300 THEN ErrorData ELSE NoData, requestId |-> id] :
        c \in Codes, id \in RequestIds \cup {NoRequestId}}

\* The pushes a peer sends: one without a requestId, one that carries the
\* requestId of the first request.
Pushes ==
    {[type |-> "push", url |-> "/u", code |-> 200, data |-> NoData,
      requestId |-> NoRequestId],
     [type |-> "PUSH", url |-> "/u", code |-> 200, data |-> NoData,
      requestId |-> 1]}

Messages == Responses \cup Pushes

\* The data events of the main specification: one complete frame, which is
\* the text of a message or is not JSON.
Chunks == {<<m, END>> : m \in Messages \cup {JUNK}}

\* ----------------------------------------------------------- the session
\* The session object as a value: the fields of SermoSocket, the streams and
\* timers it owns in the runtime, and what the running operation has emitted
\* (emitted), written to a stream (wrote), stamped (stamps) and returned or
\* thrown (result) so far.
Self ==
    [options |-> options, state |-> state, socket |-> socket,
     lastMessage |-> lastMessage, reconnectTimeout |-> reconnectTimeout,
     reconnectCount |-> reconnectCount, pendingRequest |-> pendingRequest,
     buffer |-> buffer, streams |-> streams, timers |-> timers,
     requestTimers |-> requestTimers, promise |-> promise,
     emitted |-> <<>>, wrote |-> {}, stamps |-> 0, result |-> "void",
     data |-> <<>>, messages |-> <<>>, seen |-> <<>>]

\* emitter.emit(...): the observers run at once, and the state they read from
\* the session is the one it has at that moment (seen).
emit(s, e) == [s EXCEPT !.emitted = Append(@, e), !.seen = Append(@, s.state)]

\* A promise settles once: resolve and reject after that change nothing.
settle(p, outcome) == IF p.status = "pending" THEN outcome ELSE p

SermoSocketTimeout(requestId) ==
    [name |-> "SermoSocketTimeout", message |-> "Request timed out",
     requestId |-> requestId]

SermoSocketRequestError(message, code, url, data) ==
    [name |-> "SermoSocketRequestError", message |-> message, code |-> code,
     url |-> url, data |-> data]

connected(s) == s.state = CONNECTED

\* socket.off(event, this.handler.bind(this)): bind() makes a new function
\* object, which is not the one init() registered, so nothing is removed.
offBound(stream) == stream

\* socket.destroy()
destroy(stream) == [stream EXCEPT !.status = "destroyed"]

\* A disconnect() that also starts the attempt count over.
disconnect_resetCount(s) ==
    IF s.socket = NoSocket
    THEN s
    ELSE [s EXCEPT !.streams[s.socket] = destroy(offBound(@)),
                   !.state = DISCONNECTED,
                   !.lastMessage = NoStamp,
                   !.buffer = <<>>,
                   !.reconnectCount = 0]

disconnect(s) ==
    IF s.socket = NoSocket
    THEN s
    ELSE [s EXCEPT !.streams[s.socket] = destroy(offBound(@)),
                   !.state = DISCONNECTED,
                   !.lastMessage = NoStamp,
                   !.buffer = <<>>]

\* net.createConnection(...): a new stream, connecting, without listeners.
\* by: who asked for it ("caller" or "timer"); not a field of the socket.
createConnection(by) == [status |-> "connecting", listeners |-> FALSE, by |-> by]

\* An init() that installs the new stream without tearing the old one down.
init_noDisconnect(s, stream) ==
    [s EXCEPT !.streams = Append(@, [stream EXCEPT !.listeners = TRUE]),
              !.socket = Len(s.streams) + 1,
              !.buffer = <<>>]

\* An init() that hands the frame buffer of the old stream over to the new
\* one.
init_keepBuffer(s, stream) ==
    LET d == disconnect(s)
    IN  [d EXCEPT !.streams = Append(@, [stream EXCEPT !.listeners = TRUE]),
                  !.socket = Len(d.streams) + 1,
                  !.buffer = s.buffer]

init(s, stream) ==
    LET d == disconnect(s)
    IN  [d EXCEPT !.streams = Append(@, [stream EXCEPT !.listeners = TRUE]),
                  !.socket = Len(d.streams) + 1,
                  !.buffer = <<>>]

connect(s, by) == init(s, createConnection(by))

\* The backoff with its first threshold off by one (>= 20 for > 20).
reconnectDelay_from20(n) ==
    IF n > 200 THEN 10000
    ELSE IF n > 150 THEN 5000
    ELSE IF n > 100 THEN 2000
    ELSE IF n > 50 THEN 1000
    ELSE IF n >= 20 THEN 500
    ELSE 100

\* The delay reconnect() computes from the attempt counter.
reconnectDelay(n) ==
    IF n > 200 THEN 10000
    ELSE IF n > 150 THEN 5000
    ELSE IF n > 100 THEN 2000
    ELSE IF n > 50 THEN 1000
    ELSE IF n > 20 THEN 500
    ELSE 100

\* setTimeout returns a handle no armed timer has.
newTimer(armed) ==
    CHOOSE id \in 1..(Cardinality(armed) + 1) : \A t \in armed : t.id # id

\* reconnect() without its guard on a timer that is already scheduled.
reconnect_noGuard(s) ==
    LET d == disconnect(s)
        id == newTimer(d.timers)
    IN  [d EXCEPT !.reconnectTimeout = id,
                  !.timers = @ \cup
                      {[id |-> id, delay |-> reconnectDelay(d.reconnectCount)]}]

reconnect(s) ==
    IF s.reconnectTimeout # NoTimer
    THEN s
    ELSE LET d == disconnect(s)
             id == newTimer(d.timers)
         IN  [d EXCEPT !.reconnectTimeout = id,
                       !.timers = @ \cup
                           {[id |-> id, delay |-> reconnectDelay(d.reconnectCount)]}]

\* The callback of the reconnect timer t, which has just fired.
reconnectFired(s, t) ==
    LET c == [s EXCEPT !.timers = {u \in @ \ {t} : u.id # s.reconnectTimeout},
                       !.reconnectTimeout = NoTimer,
                       !.reconnectCount = @ + 1]
    IN  connect(c, "timer")

\* The requestId of the next request: String(Math.random()), a value no
\* earlier request has.
newRequestId(s) ==
    Cardinality({id \in DOMAIN s.promise : s.promise[id].status # "unsent"}) + 1

\* request() that checks only that a stream exists, not the state.
request_noStateCheck(s) ==
    IF s.socket = NoSocket
    THEN [s EXCEPT !.result = "SocketOffline"]
    ELSE LET id == newRequestId(s)
         IN  [s EXCEPT !.wrote = @ \cup {<<s.socket, id>>},
                       !.requestTimers = @ \cup {id},
                       !.pendingRequest = @ \cup {id},
                       !.promise[id] = [status |-> "pending"],
                       !.result = "Promise"]

request(s) ==
    IF s.socket = NoSocket \/ connected(s) = FALSE
    THEN [s EXCEPT !.result = "SocketOffline"]
    ELSE LET id == newRequestId(s)
         IN  [s EXCEPT !.wrote = @ \cup {<<s.socket, id>>},
                       !.requestTimers = @ \cup {id},
                       !.pendingRequest = @ \cup {id},
                       !.promise[id] = [status |-> "pending"],
                       !.result = "Promise"]

\* A timeout callback that rejects nothing.
requestTimedOut_noReject(s, id) == [s EXCEPT !.requestTimers = @ \ {id}]

\* The callback of the timeout timer of request id, which has just fired.
requestTimedOut(s, id) ==
    [s EXCEPT !.requestTimers = @ \ {id},
              !.promise[id] =
                  settle(@, [status |-> "rejected",
                             reason |-> SermoSocketTimeout(id)])]

onMessage(s) == [s EXCEPT !.lastMessage = Stamp, !.stamps = @ + 1]

\* A purge that rejects every entry with the requestId of the first one.
rejectPending_firstId(s) ==
    [s EXCEPT !.promise =
        [id \in DOMAIN @ |->
            IF id \in s.pendingRequest
            THEN settle(@[id],
                        [status |-> "rejected",
                         reason |-> SermoSocketTimeout(
                             CHOOSE k \in s.pendingRequest :
                                 \A j \in s.pendingRequest : k <= j)])
            ELSE @[id]]]

\* this.pendingRequest.forEach(... request.reject(new SermoSocketTimeout(requestId)))
rejectPending(s) ==
    [s EXCEPT !.promise =
        [id \in DOMAIN @ |->
            IF id \in s.pendingRequest
            THEN settle(@[id], [status |-> "rejected",
                                reason |-> SermoSocketTimeout(id)])
            ELSE @[id]]]

\* A session that reconnects whatever the option says.
reconnectWanted_always(opts) == TRUE

\* this.options.reconnect !== false
reconnectWanted(opts) == opts.reconnect # FALSE

\* A transition that notifies disconnect whenever the new state is
\* DISCONNECTED, whatever the old one.
onStateChange_alwaysDisconnect(s, st) ==
    IF s.state = st
    THEN s
    ELSE LET a == IF st = DISCONNECTED
                  THEN emit(s, [event |-> "disconnect"])
                  ELSE s
             b == IF st = DISCONNECTED /\ reconnectWanted(a.options)
                  THEN reconnect(a)
                  ELSE a
             c == IF st = DISCONNECTED THEN rejectPending(b) ELSE b
             d == emit(c, [event |-> "state-change", state |-> st,
                           oldState |-> c.state])
             e == [d EXCEPT !.state = st]
         IN  IF st = CONNECTED THEN emit(e, [event |-> "connect"]) ELSE e

\* A transition that notifies connect first and assigns the state last.
onStateChange_connectFirst(s, st) ==
    IF s.state = st
    THEN s
    ELSE LET a == IF st = DISCONNECTED /\ s.state = CONNECTED
                  THEN emit(s, [event |-> "disconnect"])
                  ELSE s
             b == IF st = DISCONNECTED /\ reconnectWanted(a.options)
                  THEN reconnect(a)
                  ELSE a
             c == IF st = DISCONNECTED THEN rejectPending(b) ELSE b
             d == IF st = CONNECTED THEN emit(c, [event |-> "connect"]) ELSE c
             e == emit(d, [event |-> "state-change", state |-> st,
                           oldState |-> d.state])
         IN  [e EXCEPT !.state = st]

onStateChange(s, st) ==
    IF s.state = st
    THEN s
    ELSE LET a == IF st = DISCONNECTED /\ s.state = CONNECTED
                  THEN emit(s, [event |-> "disconnect"])
                  ELSE s
             b == IF st = DISCONNECTED /\ reconnectWanted(a.options)
                  THEN reconnect(a)
                  ELSE a
             c == IF st = DISCONNECTED THEN rejectPending(b) ELSE b
             d == emit(c, [event |-> "state-change", state |-> st,
                           oldState |-> c.state])
             e == [d EXCEPT !.state = st]
         IN  IF st = CONNECTED THEN emit(e, [event |-> "connect"]) ELSE e

onConnect(s) ==
    onMessage(onStateChange([s EXCEPT !.reconnectCount = 0], CONNECTED))

\* A framer that does not report a frame with no bytes in it.
RECURSIVE splitData_skipEmpty(_, _, _, _)
splitData_skipEmpty(buf, msgs, data, endByte) ==
    IF data = <<>>
    THEN [buffer |-> buf, messages |-> msgs]
    ELSE IF Head(data) # [byte |-> endByte]
         THEN splitData_skipEmpty(Append(buf, Head(data)), msgs, Tail(data),
                                  endByte)
         ELSE splitData_skipEmpty(<<>>,
                                  IF buf = <<>> THEN msgs ELSE Append(msgs, buf),
                                  Tail(data), endByte)

\* The loop of onData over the bytes of data: buf is this.buffer and msgs the
\* local list of messages.
RECURSIVE splitData(_, _, _, _)
splitData(buf, msgs, data, endByte) ==
    IF data = <<>>
    THEN [buffer |-> buf, messages |-> msgs]
    ELSE IF Head(data) # [byte |-> endByte]
         THEN splitData(Append(buf, Head(data)), msgs, Tail(data), endByte)
         ELSE splitData(<<>>, Append(msgs, buf), Tail(data), endByte)

\* JSON.parse(messageBuffer.toString()): the text of exactly one message
\* parses to that message, anything else throws.
jsonParse(frame) ==
    IF Len(frame) = 1 /\ "byte" \notin DOMAIN frame[1]
    THEN [ok |-> TRUE, value |-> frame[1]]
    ELSE [ok |-> FALSE]

\* A comparison of the type as sent, without folding its case.
toUpperCase_asSent(str) == str

\* String.prototype.toUpperCase on the type strings a peer sends.
toUpperCase(str) ==
    CASE str = "push" -> "PUSH"
      [] str = "request" -> "REQUEST"
      [] OTHER -> str

\* message.data?.error || 'Request failed'
errorMessage(data) ==
    IF "error" \in DOMAIN data THEN data.error ELSE "Request failed"

\* The success test of an earlier variant of the engine: code === 200.
isSuccess_only200(code) == code = 200

\* message.code >= 200 && message.code < 300
isSuccess(code) == code >= 200 /\ code < 300

\* A lookup that falls back on the oldest entry when the requestId is unknown
\* (correlation by send order).
pendingRequestGet_oldest(s, requestId) ==
    IF requestId \in s.pendingRequest THEN requestId
    ELSE IF s.pendingRequest # {}
         THEN CHOOSE k \in s.pendingRequest : \A j \in s.pendingRequest : k <= j
         ELSE NoRequestId

\* A lookup by send order: whatever requestId the response carries, it is
\* given to the oldest entry.
pendingRequestGet_sendOrder(s, requestId) ==
    IF requestId \in s.pendingRequest
    THEN CHOOSE k \in s.pendingRequest : \A j \in s.pendingRequest : k <= j
    ELSE NoRequestId

\* this.pendingRequest.has(requestId), then this.pendingRequest.get(requestId):
\* the key of the entry found, or NoRequestId.
pendingRequestGet(s, requestId) ==
    IF requestId \in s.pendingRequest THEN requestId ELSE NoRequestId

\* A decode failure that is reported to the observers as an error.
onParseError_emitError(s) == emit(s, [event |-> "error"])

\* catch (e) { return; }
onParseError(s) == s

\* The body of messages.forEach for one frame.  message.type.toUpperCase()
\* throws a TypeError when the decoded value has no type.
onFrame(s, frame) ==
    LET p == jsonParse(frame)
    IN  IF ~p.ok
        THEN onParseError(s)
        ELSE LET message == p.value
                 a == onMessage(s)
                 b == IF toUpperCase(message.type) = "PUSH"
                      THEN emit(a, [event |-> "push", message |-> message])
                      ELSE a
                 found == pendingRequestGet(b, message.requestId)
             IN  IF "type" \notin DOMAIN message
                 THEN [a EXCEPT !.result = "TypeError"]
                 ELSE IF toUpperCase(message.type) = "REQUEST"
                         /\ found # NoRequestId
                 THEN [b EXCEPT
                         !.requestTimers = @ \ {found},
                         !.promise[found] =
                             settle(@,
                                 IF isSuccess(message.code)
                                 THEN [status |-> "resolved", value |-> message]
                                 ELSE [status |-> "rejected",
                                       reason |-> SermoSocketRequestError(
                                           errorMessage(message.data),
                                           message.code, message.url,
                                           message.data)]),
                         !.pendingRequest = @ \ {found}]
                 ELSE b

\* messages.forEach: an exception thrown by the callback ends the loop and
\* leaves onData.
RECURSIVE forEachFrame(_, _)
forEachFrame(s, messages) ==
    IF messages = <<>> \/ s.result = "TypeError"
    THEN s
    ELSE forEachFrame(onFrame(s, Head(messages)), Tail(messages))

onData(s, data) ==
    LET f == splitData(s.buffer, <<>>, data, s.options.endByte)
    IN  forEachFrame([s EXCEPT !.buffer = f.buffer, !.data = data,
                               !.messages = f.messages],
                     f.messages)

onError(s) == emit(onStateChange(s, DISCONNECTED), [event |-> "error"])

onEnd(s) == onStateChange(s, DISCONNECTED)

\* ------------------------------------------------------------- the machine
\* What a data event brings, frame by frame, as the session stands when the
\* event arrives: text that is not JSON ("junk"), a push, a response whose
\* requestId is in the pending-request table ("response") or is not
\* ("unmatched"), a message of another type ("other"), or a decoded value
\* without a type ("typeless").
frameKind(s, frame) ==
    LET p == jsonParse(frame)
    IN  IF ~p.ok THEN "junk"
        ELSE IF "type" \notin DOMAIN p.value THEN "typeless"
        ELSE IF toUpperCase(p.value.type) = "PUSH" THEN "push"
        ELSE IF toUpperCase(p.value.type) # "REQUEST" THEN "other"
        ELSE IF p.value.requestId \in s.pendingRequest THEN "response"
        ELSE "unmatched"

frameKinds(s, data) ==
    LET f == splitData(s.buffer, <<>>, data, s.options.endByte).messages
    IN  [k \in DOMAIN f |-> frameKind(s, f[k])]

\* What the operation that ends in r adds to a tracked history: a stream
\* that is installed starts an empty one, a data event extends it, and an
\* operation other than a data event that empties a buffer discards bytes;
\* the caller has released the session from its disconnect() call to its
\* next connect() or reconnect() call.
NotificationsOf(r, event) ==
    Cardinality({k \in DOMAIN r.emitted : r.emitted[k].event = event})

Tracked(r, op) ==
    [tracked |-> TRUE,
     released |-> IF op = "disconnect" THEN TRUE
                  ELSE IF op \in {"connect", "reconnect"} THEN FALSE
                  ELSE history.released,
     disconnects |-> IF NotificationsOf(r, "connect") > 0 THEN 0
                     ELSE history.disconnects + NotificationsOf(r, "disconnect"),
     received |-> IF r.socket # socket THEN <<>> ELSE history.received \o r.data,
     messages |-> IF r.socket # socket THEN <<>>
                  ELSE history.messages \o r.messages,
     discarded |-> \/ history.discarded
                   \/ (buffer # <<>> /\ r.buffer = <<>> /\ r.data = <<>>)]

Commit(r, op, frames, id) ==
    /\ options' = r.options
    /\ state' = r.state
    /\ socket' = r.socket
    /\ lastMessage' = r.lastMessage
    /\ reconnectTimeout' = r.reconnectTimeout
    /\ reconnectCount' = r.reconnectCount
    /\ pendingRequest' = r.pendingRequest
    /\ buffer' = r.buffer
    /\ streams' = r.streams
    /\ timers' = r.timers
    /\ requestTimers' = r.requestTimers
    /\ promise' = r.promise
    /\ emitted' = r.emitted
    /\ last' = [op |-> op, frames |-> frames, id |-> id, result |-> r.result,
                wrote |-> r.wrote, stamps |-> r.stamps,
                seen |-> r.seen]
    /\ history' = IF history.tracked THEN Tracked(r, op) ELSE history

\* The stream i has emitted an event: what the runtime did to it before the
\* handlers run.
streamIs(s, i, status) == [s EXCEPT !.streams[i].status = status]

Live(i, statuses) ==
    /\ i \in DOMAIN streams
    /\ streams[i].listeners
    /\ streams[i].status \in statuses

NoHistory ==
    [tracked |-> FALSE, received |-> <<>>, messages |-> <<>>,
     discarded |-> FALSE, disconnects |-> 0, released |-> FALSE]

Init ==
    /\ history = NoHistory
    /\ options \in [reconnect : BOOLEAN, endByte : {DefaultEndByte}]
    /\ state = INITIALIZING
    /\ socket = NoSocket
    /\ lastMessage = NoStamp
    /\ reconnectTimeout = NoTimer
    /\ reconnectCount = 0
    /\ pendingRequest = {}
    /\ buffer = <<>>
    /\ streams = <<>>
    /\ timers = {}
    /\ requestTimers = {}
    /\ promise = [id \in RequestIds |-> [status |-> "unsent"]]
    /\ emitted = <<>>
    /\ last = [op |-> "constructor", frames |-> <<>>, id |-> 0,
               result |-> "void", wrote |-> {}, stamps |-> 0, seen |-> <<>>]

CallConnect ==
    /\ Len(streams) < MaxStreams
    /\ Commit(connect(Self, "caller"), "connect", <<>>, 0)

CallDisconnect == Commit(disconnect(Self), "disconnect", <<>>, 0)

CallReconnect == Commit(reconnect(Self), "reconnect", <<>>, 0)

CallRequest ==
    /\ (socket # NoSocket /\ connected(Self)) => newRequestId(Self) <= MaxRequests
    /\ Commit(request(Self), "request", <<>>, newRequestId(Self))

ReconnectTimerFires ==
    \E t \in timers :
        /\ Len(streams) < MaxStreams
        /\ Commit(reconnectFired(Self, t), "reconnectTimer", <<>>, t.id)

RequestTimerFiresOf(id) ==
    /\ id \in requestTimers
    /\ Commit(requestTimedOut(Self, id), "requestTimer", <<>>, id)

RequestTimerFires == \E id \in RequestIds : RequestTimerFiresOf(id)

StreamConnect ==
    \E i \in DOMAIN streams :
        /\ Live(i, {"connecting"})
        /\ Commit(onConnect(streamIs(Self, i, "open")), "onConnect", <<>>, i)

StreamDataOf(i, data) ==
    /\ Live(i, {"open"})
    /\ Commit(onData(Self, data), "onData", frameKinds(Self, data), i)

StreamData == \E i \in DOMAIN streams, data \in Chunks : StreamDataOf(i, data)

StreamError ==
    \E i \in DOMAIN streams :
        /\ Live(i, {"connecting", "open"})
        /\ Commit(onError(streamIs(Self, i, "closed")), "onError", <<>>, i)

StreamEnd ==
    \E i \in DOMAIN streams :
        /\ Live(i, {"open"})
        /\ Commit(onEnd(streamIs(Self, i, "closed")), "onEnd", <<>>, i)

Next ==
    \/ CallConnect
    \/ CallDisconnect
    \/ CallReconnect
    \/ CallRequest
    \/ ReconnectTimerFires
    \/ RequestTimerFires
    \/ StreamConnect
    \/ StreamData
    \/ StreamError
    \/ StreamEnd

Spec == Init /\ [][Next]_vars

\* The runtime fires every armed timeout timer (setTimeout, 5000 ms) unless
\* clearTimeout disarms it first.
SpecFair ==
    Init /\ [][Next]_vars /\ \A id \in RequestIds : WF_vars(RequestTimerFiresOf(id))

\* The attempt counters the backoff specification starts from: the last value
\* of each row of the backoff table but the open one.
BackoffStarts == {20, 50, 100, 150, 200}

\* The session after n rounds of a caller's reconnect() and the firing of its
\* timer, n in BackoffStarts, no stream having reported anything: the stream
\* of the last round is connecting, and the destroyed streams of the earlier
\* rounds are left out.
InitBackoff ==
    /\ history = NoHistory
    /\ options \in [reconnect : BOOLEAN, endByte : {DefaultEndByte}]
    /\ state = DISCONNECTED
    /\ socket = 1
    /\ lastMessage = NoStamp
    /\ reconnectTimeout = NoTimer
    /\ reconnectCount \in BackoffStarts
    /\ pendingRequest = {}
    /\ buffer = <<>>
    /\ streams = <<[createConnection("timer") EXCEPT !.listeners = TRUE]>>
    /\ timers = {}
    /\ requestTimers = {}
    /\ promise = [id \in RequestIds |-> [status |-> "unsent"]]
    /\ emitted = <<>>
    /\ last = [op |-> "reconnectTimer", frames |-> <<>>, id |-> 1,
               result |-> "void", wrote |-> {}, stamps |-> 0, seen |-> <<>>]

SpecBackoff == InitBackoff /\ [][Next]_vars

\* The bytes of the framing specification: the delimiter, a byte that is not
\* JSON, and the text of a push.
FrameMessage ==
    [type |-> "push", url |-> "/u", code |-> 200, data |-> NoData,
     requestId |-> NoRequestId]

FrameBytes == {END, JUNK, FrameMessage}

RECURSIVE SeqsOf(_, _)
SeqsOf(S, n) ==
    IF n = 0 THEN {<<>>}
    ELSE SeqsOf(S, n - 1)
             \cup {Append(q, x) : q \in {w \in SeqsOf(S, n - 1) : Len(w) = n - 1},
                                  x \in S}

\* The data events of the framing specification: any split of the byte
\* stream into chunks of 1..MaxChunk bytes.
FrameChunks == SeqsOf(FrameBytes, MaxChunk) \ {<<>>}

InitFraming ==
    /\ history = [NoHistory EXCEPT !.tracked = TRUE]
    /\ options \in [reconnect : BOOLEAN, endByte : {DefaultEndByte}]
    /\ state = INITIALIZING
    /\ socket = NoSocket
    /\ lastMessage = NoStamp
    /\ reconnectTimeout = NoTimer
    /\ reconnectCount = 0
    /\ pendingRequest = {}
    /\ buffer = <<>>
    /\ streams = <<>>
    /\ timers = {}
    /\ requestTimers = {}
    /\ promise = [id \in RequestIds |-> [status |-> "unsent"]]
    /\ emitted = <<>>
    /\ last = [op |-> "constructor", frames |-> <<>>, id |-> 0,
               result |-> "void", wrote |-> {}, stamps |-> 0, seen |-> <<>>]

StreamBytes ==
    \E i \in DOMAIN streams, data \in FrameChunks :
        /\ Len(history.received) + Len(data) <= MaxBytes
        /\ StreamDataOf(i, data)

NextFraming ==
    \/ CallConnect
    \/ CallDisconnect
    \/ CallReconnect
    \/ ReconnectTimerFires
    \/ StreamConnect
    \/ StreamBytes
    \/ StreamError
    \/ StreamEnd

SpecFraming == InitFraming /\ [][NextFraming]_vars

\* The frames of the dispatch specification: text that is not JSON, JSON
\* without a type field, a successful response to the first request, and a
\* push.
Typeless == [url |-> "/u", code |-> 200, data |-> NoData, requestId |-> 1]

DispatchMessages ==
    {JUNK, Typeless, FrameMessage,
     [type |-> "REQUEST", url |-> "/u", code |-> 200, data |-> NoData,
      requestId |-> 1]}

\* The bytes of a sequence of frames: each followed by the delimiter.
RECURSIVE Wire(_)
Wire(frames) ==
    IF frames = <<>> THEN <<>>
    ELSE <<Head(frames), END>> \o Wire(Tail(frames))

DispatchFrames == SeqsOf(DispatchMessages, MaxFrames) \ {<<>>}

\* A session made with reconnect disabled.
InitDispatch ==
    /\ history = NoHistory
    /\ options = [reconnect |-> FALSE, endByte |-> DefaultEndByte]
    /\ state = INITIALIZING
    /\ socket = NoSocket
    /\ lastMessage = NoStamp
    /\ reconnectTimeout = NoTimer
    /\ reconnectCount = 0
    /\ pendingRequest = {}
    /\ buffer = <<>>
    /\ streams = <<>>
    /\ timers = {}
    /\ requestTimers = {}
    /\ promise = [id \in RequestIds |-> [status |-> "unsent"]]
    /\ emitted = <<>>
    /\ last = [op |-> "constructor", frames |-> <<>>, id |-> 0,
               result |-> "void", wrote |-> {}, stamps |-> 0, seen |-> <<>>]

\* A data event of 1..MaxFrames complete frames.
StreamFrames ==
    \E i \in DOMAIN streams, frames \in DispatchFrames :
        StreamDataOf(i, Wire(frames))

NextDispatch ==
    \/ CallConnect
    \/ CallRequest
    \/ RequestTimerFires
    \/ StreamConnect
    \/ StreamFrames
    \/ StreamError
    \/ StreamEnd

SpecDispatch == InitDispatch /\ [][NextDispatch]_vars

\* ------------------------------------------------------------------ sanity
Outcomes ==
    [status : {"unsent", "pending"}]
        \cup [status : {"resolved"}, value : Responses]
        \cup [status : {"rejected"},
              reason : {SermoSocketTimeout(id) : id \in RequestIds}
                  \cup {SermoSocketRequestError(errorMessage(m.data), m.code,
                                                m.url, m.data) : m \in Responses}]

TypeOK ==
    /\ state \in {INITIALIZING, CONNECTED, DISCONNECTED}
    /\ socket \in {NoSocket} \cup DOMAIN streams
    /\ Len(streams) <= MaxStreams
    /\ lastMessage \in {NoStamp, Stamp}
    /\ reconnectCount \in Nat
    /\ pendingRequest \subseteq RequestIds
    /\ requestTimers \subseteq RequestIds
    /\ promise \in [RequestIds -> Outcomes]
    /\ \A t \in timers : t.id \in Nat \ {NoTimer}

\* Only the stream the session holds can still emit events, and the session is
\* CONNECTED exactly while that stream is open.
LiveStreamIsHeld ==
    /\ \A i \in DOMAIN streams :
          streams[i].status \in {"connecting", "open"} => i = socket
    /\ state = CONNECTED <=> (socket # NoSocket /\ streams[socket].status = "open")

\* The handle field names the armed reconnect timer, if any.
HandleIsArmedTimer ==
    /\ reconnectTimeout = NoTimer <=> timers = {}
    /\ \A t \in timers : t.id = reconnectTimeout

\* ------------------------------------------------------------------ claims
\* The fields of the session and of the runtime objects it owns.
sessionVars ==
    <<options, state, socket, lastMessage, reconnectTimeout, reconnectCount,
      pendingRequest, buffer, streams, timers, requestTimers, promise>>

Rejected(reason) == [status |-> "rejected", reason |-> reason]

\* C1: a request() made while there is no stream or the state is not
\* CONNECTED fails with the Offline error, writes to no stream, and leaves
\* the pending-request table, the request timers and every promise as they
\* were.
C1_OfflineRequest ==
    [][(last'.op = "request" /\ (socket = NoSocket \/ state # CONNECTED))
        => /\ last'.result = "SocketOffline"
           /\ last'.wrote = {}
           /\ pendingRequest' = pendingRequest
           /\ requestTimers' = requestTimers
           /\ promise' = promise]_vars

\* C1 witness: a request() has failed Offline on a session that holds a stream
\* and has an entry in its table.
C1_Witness ==
    /\ last.op = "request"
    /\ last.result = "SocketOffline"
    /\ socket # NoSocket
    /\ state = DISCONNECTED
    /\ pendingRequest # {}

\* What C2 says of the response m: its entry is gone, its timer is not armed,
\* and the request, if it was still pending, is resolved with m when m.code is
\* in 200..299 and is otherwise rejected with a RequestError of m's code, url
\* and data.
C2_Settled(m) ==
    /\ m.requestId \notin pendingRequest'
    /\ m.requestId \notin requestTimers'
    /\ promise[m.requestId].status = "pending" =>
          IF m.code \in 200..299
          THEN promise'[m.requestId] = [status |-> "resolved", value |-> m]
          ELSE /\ promise'[m.requestId].status = "rejected"
               /\ promise'[m.requestId].reason.name = "SermoSocketRequestError"
               /\ promise'[m.requestId].reason.code = m.code
               /\ promise'[m.requestId].reason.url = m.url
               /\ promise'[m.requestId].reason.data = m.data

\* C2: a data event that brings a REQUEST-type response whose requestId is in
\* the pending-request table resolves the pending request with the response
\* when its code is in 200..299, rejects it with a RequestError of the same
\* code, url and data otherwise, and in both cases removes the entry and
\* cancels its timer.
C2_ResponseSettles ==
    [][(last'.op = "onData" /\ last'.frames = <<"response">>)
        => \A m \in Responses :
              (m.requestId \in pendingRequest
                  /\ StreamDataOf(last'.id, <<m, END>>))
                  => C2_Settled(m)]_vars

\* C2 witness: a response has just been matched, and by now one request is
\* resolved with a code-299 response and another is rejected with a
\* RequestError of code 199.
C2_Witness ==
    /\ last.op = "onData"
    /\ last.frames = <<"response">>
    /\ \E a, b \in RequestIds :
          /\ promise[a].status = "resolved"
          /\ promise[a].value.code = 299
          /\ promise[b].status = "rejected"
          /\ promise[b].reason.name = "SermoSocketRequestError"
          /\ promise[b].reason.code = 199
          /\ {a, b} \cap (pendingRequest \cup requestTimers) = {}

\* C3 (as claimed): when the timeout timer of a request fires, the request is
\* rejected with a Timeout error of its requestId and its entry is no longer
\* in the pending-request table.
C3_TimeoutRemovesEntry ==
    (last.op = "requestTimer" /\ last.id \in RequestIds)
        => /\ promise[last.id] = Rejected(SermoSocketTimeout(last.id))
           /\ last.id \notin pendingRequest

\* C4: a stream error or end that arrives while the state is not DISCONNECTED
\* leaves every request of the pending-request table rejected with a Timeout
\* error of that request's own requestId.
C4_PurgeRejectsAll ==
    [][(last'.op \in {"onError", "onEnd"} /\ state # DISCONNECTED)
        => \A id \in pendingRequest :
              promise'[id] = Rejected(SermoSocketTimeout(id))]_vars

\* C4 witness: a stream error or end has just rejected two requests that were
\* pending (their timers are still armed).
C4_Witness ==
    /\ last.op \in {"onError", "onEnd"}
    /\ \E k \in DOMAIN emitted : emitted[k].event = "state-change"
    /\ Cardinality({id \in requestTimers :
                       promise[id] = Rejected(SermoSocketTimeout(id))}) >= 2

\* C5 (as claimed): once a stream error, a stream end or a disconnect() call
\* has made the state DISCONNECTED, the pending-request table is empty.
C5_DisconnectedTableEmpty ==
    (state = DISCONNECTED /\ last.op \in {"onError", "onEnd", "disconnect"})
        => pendingRequest = {}

\* C6 (as claimed): with reconnect enabled, when the stream of a connect
\* attempt made by a reconnect timer has reported error or end, a reconnect
\* timer is scheduled again.
C6_FailedAttemptRetries ==
    (/\ options.reconnect
     /\ last.op \in {"onError", "onEnd"}
     /\ streams[last.id].by = "timer")
        => (reconnectTimeout # NoTimer /\ timers # {})

\* C7 (as claimed): every state-change notification carries as oldState the
\* state the session held before the event that caused it, and a new state
\* that differs from it.
C7_StateChangeOldState ==
    [][\A k \in DOMAIN emitted' :
          emitted'[k].event = "state-change"
              => /\ emitted'[k].oldState = state
                 /\ emitted'[k].state # emitted'[k].oldState]_vars

\* C8: at most one reconnect timer is armed at any time, and a reconnect()
\* made while one is armed changes nothing of the session, its streams or its
\* timers and emits nothing.
C8_SingleReconnectTimer ==
    [][/\ Cardinality(timers') <= 1
       /\ (last'.op = "reconnect" /\ timers # {})
             => (UNCHANGED sessionVars /\ emitted' = <<>>)]_vars

\* C8 witness: reconnect() has been called on a CONNECTED session while a
\* reconnect timer was armed; the stream is still open and the timer is still
\* the only one.
C8_Witness ==
    /\ last.op = "reconnect"
    /\ state = CONNECTED
    /\ streams[socket].status = "open"
    /\ Cardinality(timers) = 1

\* The backoff table of the specification.
BackoffTable(n) ==
    CASE n <= 20 -> 100
      [] n \in 21..50 -> 500
      [] n \in 51..100 -> 1000
      [] n \in 101..150 -> 2000
      [] n \in 151..200 -> 5000
      [] n > 200 -> 10000

\* C9: whenever a reconnect timer is scheduled, its delay is the one the
\* backoff table gives for the value of the attempt counter at that moment.
C9_BackoffDelay ==
    [][(reconnectTimeout = NoTimer /\ reconnectTimeout' # NoTimer)
        => timers' = {[id |-> reconnectTimeout',
                       delay |-> BackoffTable(reconnectCount)]}]_vars

\* C9 witness: a timer scheduled at attempt 21, the first of the 500 ms row,
\* is armed.
C9_Witness ==
    /\ reconnectCount = 21
    /\ last.op \in {"reconnect", "onError", "onEnd"}
    /\ timers = {[id |-> reconnectTimeout, delay |-> 500]}

\* C10: a data event that brings a REQUEST-type response whose requestId is
\* not in the pending-request table leaves the table, every promise, every
\* request timer and the connection state as they were and emits nothing.
C10_UnmatchedResponseDropped ==
    [][(last'.op = "onData" /\ last'.frames = <<"unmatched">>)
        => /\ pendingRequest' = pendingRequest
           /\ promise' = promise
           /\ requestTimers' = requestTimers
           /\ state' = state
           /\ emitted' = <<>>]_vars

\* C10 witness: an unmatched response has just been dropped while a request
\* was pending with its timer armed.
C10_Witness ==
    /\ last.op = "onData"
    /\ last.frames = <<"unmatched">>
    /\ \E id \in pendingRequest :
          promise[id].status = "pending" /\ id \in requestTimers

\* C11: a data event that brings a PUSH-type message, whatever the case of
\* its type, emits exactly one push notification, which carries the whole
\* message, and leaves the pending-request table, every promise and every
\* request timer as they were, also when the message carries the requestId
\* of a pending request.
C11_PushOnlyNotifies ==
    [][(/\ last'.op = "onData"
        /\ last'.frames \notin {<<"junk">>, <<"response">>, <<"unmatched">>})
        => \A m \in Pushes :
              StreamDataOf(last'.id, <<m, END>>)
                  => /\ emitted' = <<[event |-> "push", message |-> m]>>
                     /\ pendingRequest' = pendingRequest
                     /\ promise' = promise
                     /\ requestTimers' = requestTimers]_vars

\* C11 witness: a push that carries the requestId of a request has just been
\* notified while that request is pending, in the table, its timer armed.
C11_Witness ==
    /\ last.op = "onData"
    /\ Len(emitted) = 1
    /\ emitted[1].event = "push"
    /\ emitted[1].message.requestId \in pendingRequest \cap requestTimers
    /\ promise[emitted[1].message.requestId].status = "pending"

\* The positions of the delimiter byte in a byte sequence, and the n-th of
\* them (0 for n = 0).
DelimitersOf(bytes) ==
    {i \in 1..Len(bytes) : bytes[i] = [byte |-> options.endByte]}

NthDelimiter(bytes, n) ==
    IF n = 0 THEN 0
    ELSE CHOOSE p \in DelimitersOf(bytes) :
             Cardinality({q \in DelimitersOf(bytes) : q <= p}) = n

\* C12: whatever the data events the bytes of a stream arrived in, if the
\* bytes received so far contain k delimiters then exactly k messages have
\* been extracted, the i-th being the bytes strictly between delimiter i-1
\* and delimiter i (possibly none), and until the stream is torn down the
\* frame buffer holds the bytes after the last delimiter.
C12_FramingIsSplitIndependent ==
    LET bytes == history.received
        k == Cardinality(DelimitersOf(bytes))
    IN  /\ Len(history.messages) = k
        /\ \A i \in 1..k :
              history.messages[i] =
                  SubSeq(bytes, NthDelimiter(bytes, i - 1) + 1,
                         NthDelimiter(bytes, i) - 1)
        /\ (socket = NoSocket \/ streams[socket].status # "destroyed")
              => buffer = SubSeq(bytes, NthDelimiter(bytes, k) + 1, Len(bytes))

\* C12 witness: a message of MaxBytes - 1 bytes has been extracted; with its
\* delimiter its frame is longer than any data event, so it arrived in more
\* than one and was completed from the buffer.
C12_Witness ==
    /\ history.tracked
    /\ MaxBytes > MaxChunk
    /\ Len(history.received) = MaxBytes
    /\ Len(history.messages) = 1
    /\ Len(history.messages[1]) = MaxBytes - 1
    /\ last.op = "onData"
    /\ Len(last.frames) = 1

\* C13: when a connect notification is emitted the state field of the
\* session is already CONNECTED, and the state-change notification of that
\* transition to CONNECTED has been emitted before it.
C13_ConnectSeesConnected ==
    \A k \in DOMAIN emitted :
        emitted[k].event = "connect"
            => /\ last.seen[k] = CONNECTED
               /\ \E j \in 1..(k - 1) :
                     /\ emitted[j].event = "state-change"
                     /\ emitted[j].state = CONNECTED

\* C13 witness: a stream has reported connect and the session has notified
\* state-change and then connect.
C13_Witness ==
    /\ last.op = "onConnect"
    /\ Len(emitted) = 2
    /\ emitted[1].event = "state-change"
    /\ emitted[2].event = "connect"
    /\ state = CONNECTED

\* C14: a stream error or end emits one disconnect notification when the
\* state at that moment is CONNECTED and none when it is INITIALIZING or
\* DISCONNECTED, and at most one disconnect notification is emitted between
\* two consecutive connect notifications.
C14_DisconnectOncePerConnect ==
    [][/\ last'.op \in {"onError", "onEnd"}
             => Cardinality({k \in DOMAIN emitted' :
                                emitted'[k].event = "disconnect"})
                    = IF state = CONNECTED THEN 1 ELSE 0
       /\ history'.disconnects <= 1]_vars

\* C14 witness: after the disconnect notification of a connection, a later
\* stream has reported error or end without a connect in between, and no
\* second disconnect notification was emitted.
C14_Witness ==
    /\ history.disconnects = 1
    /\ last.op \in {"onError", "onEnd"}
    /\ streams[last.id].status = "closed"
    /\ \A k \in DOMAIN emitted : emitted[k].event # "disconnect"

\* C15 (as claimed): a stream that disconnect() has torn down no longer has
\* the connect, data, error and end handlers of the session registered on it.
C15_TornDownStreamHasNoHandlers ==
    \A i \in DOMAIN streams :
        streams[i].status = "destroyed" => ~streams[i].listeners

C17_CorrelatedByRequestId ==
    [][(last'.op = "onData" /\ last'.frames = <<"response">>)
        => \A m \in Responses :
              (/\ m.requestId \in pendingRequest
               /\ promise[m.requestId].status = "pending"
               /\ StreamDataOf(last'.id, <<m, END>>))
                  => /\ promise'[m.requestId].status \in {"resolved", "rejected"}
                     /\ m.requestId \notin pendingRequest' \cup requestTimers'
                     /\ \A id \in RequestIds \ {m.requestId} :
                           /\ promise'[id] = promise[id]
                           /\ id \in pendingRequest' <=> id \in pendingRequest
                           /\ id \in requestTimers' <=> id \in requestTimers]_vars

\* C17 witness: the response to the second request has arrived first and has
\* resolved it, while the first request, sent earlier, is still pending with
\* its entry and its timer.
C17_Witness ==
    /\ last.op = "onData"
    /\ last.frames = <<"response">>
    /\ promise[2].status = "resolved"
    /\ promise[2].value.requestId = 2
    /\ promise[1].status = "pending"
    /\ 1 \in pendingRequest \cap requestTimers

Settled(id) == promise[id].status \in {"resolved", "rejected"}

\* C18: every request that request() accepted eventually settles, and settles
\* once: the firing of its timer, and a stream error or end that finds it in
\* the table, reject it on the spot if it is still pending (a matching
\* response settles it, C17), and a settled request keeps its outcome whatever
\* arrives later, a response included.
C18_SettlesExactlyOnce ==
    /\ [][\A id \in RequestIds :
            /\ Settled(id) => promise'[id] = promise[id]
            /\ (/\ promise[id].status = "pending"
                /\ \/ last'.op = "requestTimer" /\ last'.id = id
                   \/ /\ last'.op \in {"onError", "onEnd"}
                      /\ state # DISCONNECTED
                      /\ id \in pendingRequest)
                  => promise'[id] = Rejected(SermoSocketTimeout(id))]_vars
    /\ \A id \in RequestIds : (promise[id].status = "pending") ~> Settled(id)

\* C18 witness: a response has arrived for the only request sent, which was
\* already rejected with Timeout and whose entry was still in the table; the
\* request stays rejected.
C18_Witness ==
    /\ last.op = "onData"
    /\ last.frames = <<"response">>
    /\ promise[1] = Rejected(SermoSocketTimeout(1))
    /\ promise[2].status = "unsent"
    /\ Len(streams) = 2

\* C19: the attempt counter changes in two ways only: the firing of a
\* reconnect timer adds one to it, and a stream that reports connect sets it
\* to 0; no other operation changes it.
C19_CounterChanges ==
    [][/\ last'.op = "reconnectTimer" => reconnectCount' = reconnectCount + 1
       /\ last'.op = "onConnect" => reconnectCount' = 0
       /\ last'.op \notin {"reconnectTimer", "onConnect"}
             => reconnectCount' = reconnectCount]_vars

\* C19 witness: the stream of the attempt a reconnect timer made has reported
\* error; the counter still holds the one attempt counted when the timer
\* fired.
C19_Witness ==
    /\ last.op = "onError"
    /\ streams[last.id].by = "timer"
    /\ reconnectCount = 1

\* The bytes a sequence of messages came from: each message followed by the
\* delimiter.
RECURSIVE Rejoin(_)
Rejoin(msgs) ==
    IF msgs = <<>> THEN <<>>
    ELSE Head(msgs) \o <<[byte |-> options.endByte]>> \o Rejoin(Tail(msgs))

\* C20: when a stream has just been installed the frame buffer is empty, and
\* the messages extracted since, put end to end, are the first bytes that
\* this stream has delivered: none of them holds a byte of an earlier stream.
C20_NoPartialFrameSurvives ==
    /\ last.op \in {"connect", "reconnectTimer"} => buffer = <<>>
    /\ Len(Rejoin(history.messages)) <= Len(history.received)
    /\ Rejoin(history.messages) =
          SubSeq(history.received, 1, Len(Rejoin(history.messages)))

\* C20 witness: the first stream was torn down with undelimited bytes in the
\* buffer, and the second stream has just delivered a frame, which is
\* extracted as a message.
C20_Witness ==
    /\ history.discarded
    /\ socket = 2
    /\ last.op = "onData"
    /\ Len(last.frames) = 1
    /\ Len(history.messages) = 1

\* C21: every stream the session has created, other than the one it holds,
\* has been destroyed, so at most one stream is connecting or open.
C21_OnlyHeldStreamLives ==
    /\ \A i \in DOMAIN streams :
          i # socket => streams[i].status = "destroyed"
    /\ Cardinality({i \in DOMAIN streams :
                       streams[i].status \in {"connecting", "open"}}) <= 1

\* C21 witness: a second connect() has replaced the stream of the first; the
\* old stream is destroyed, and the new one has connected and carries a
\* request.
C21_Witness ==
    /\ Len(streams) = 2
    /\ socket = 2
    /\ streams[1].status = "destroyed"
    /\ streams[2].by = "caller"
    /\ streams[2].status = "open"
    /\ lastMessage = Stamp
    /\ pendingRequest # {}

\* The frames of a data event but those that are not JSON.
Decodable(frames) == SelectSeq(frames, LAMBDA m : m # JUNK)

\* The step leaves the session, its notifications, its stamps and its result
\* as the operation that ends in r does.
SameOutcome(r) ==
    /\ state' = r.state
    /\ pendingRequest' = r.pendingRequest
    /\ lastMessage' = r.lastMessage
    /\ promise' = r.promise
    /\ requestTimers' = r.requestTimers
    /\ emitted' = r.emitted
    /\ last'.stamps = r.stamps
    /\ last'.result = r.result

\* The frames of the dispatch specification that a data event brought, from
\* their kinds: each kind is the kind of one message of DispatchMessages.
FrameOfKind(kind) ==
    CHOOSE m \in DispatchMessages :
        frameKind([pendingRequest |-> IF kind = "response" THEN {m.requestId}
                                      ELSE {}],
                  <<m>>) = kind

FramesBrought(kinds) == [k \in DOMAIN kinds |-> FrameOfKind(kinds[k])]

\* C22: a data event in which some frames do not decode does to the
\* connection state, the pending-request table, the promises, the timers and
\* the last-activity stamp, and emits, exactly what the same event without
\* those frames does: the frames that do not decode emit nothing and change
\* nothing, and the others are processed in their order.
C22_DecodeFailureDropped ==
    [][(/\ last'.op = "onData"
        /\ \E k \in DOMAIN last'.frames : last'.frames[k] = "junk")
        => \A frames \in {FramesBrought(last'.frames)} :
           \A data \in {Wire(frames)}, decodable \in {Wire(Decodable(frames))} :
               /\ StreamDataOf(last'.id, data)
               /\ SameOutcome(onData(Self, decodable))]_vars

\* C22 witness: a data event has brought a frame that is not JSON and then
\* the response to a pending request; the request is resolved, one stamp was
\* taken and nothing was emitted.
C22_Witness ==
    /\ last.op = "onData"
    /\ last.frames = <<"junk", "response">>
    /\ promise[1].status = "resolved"
    /\ 1 \notin pendingRequest
    /\ last.stamps = 1
    /\ emitted = <<>>
    /\ state = CONNECTED

\* C23 (as claimed): from a disconnect() call of the caller to the caller's
\* next connect() or reconnect() call, no stream is created and the state
\* does not change.
C23_NoAttemptAfterDisconnect ==
    [][(history.released /\ last'.op \notin {"connect", "reconnect"})
        => /\ Len(streams') = Len(streams)
           /\ state' = state]_vars

\* C24 (as claimed): whenever the state is CONNECTED no reconnect timer is
\* pending.
C24_NoTimerWhileConnected ==
    state = CONNECTED => (reconnectTimeout = NoTimer /\ timers = {})

\* C25 (as claimed): whatever the frames of a data event hold, no exception
\* leaves the data handler and every frame is dispatched: each push among
\* them is notified, and no response among them leaves its request in the
\* pending-request table.
C25_FramesDispatchedIndependently ==
    last.op = "onData"
        => /\ last.result = "void"
           /\ Len(emitted) =
                 Cardinality({k \in DOMAIN last.frames : last.frames[k] = "push"})
           /\ \A k \in DOMAIN last.frames :
                 last.frames[k] = "response"
                     => FrameOfKind("response").requestId \notin pendingRequest

====
